---- MODULE Spec2Model ----
(***************************************************************************)
(* The active-record engine of eloquent/orm/model.py (class Model): one    *)
(* instance (exists, attributes, original) of one record type (the class   *)
(* attributes __primary_key__, __incrementing__, __timestamps__,           *)
(* __fillable__, __guarded__, __casts__ and the class-level flag           *)
(* __unguarded__), with the query builder as an external collaborator that *)
(* either executes a query or raises.                                      *)
(*                                                                         *)
(* A key is the sequence of its segments, so that "users.name" is          *)
(* <<"users", ".", "name">> and "_token" is <<"_", "token">>: split('.')   *)
(* and startswith('_') are computed on it.  A value is a pair <<tag, n>>:  *)
(* <<"int", 3>> is 3, <<"str", 3>> is the string "3", <<"bool", 1>> is     *)
(* True, <<"arrow", 2>> is an arrow.Arrow at instant 2, <<"dt", 2>> the    *)
(* naive datetime at instant 2, <<"none", 0>> is None, <<"float", 3>> is   *)
(* 3.0, <<"list", s>> and <<"tuple", s>> the list and the tuple of the     *)
(* values in s, <<"dict", f>> the dictionary f, and <<"text", d>> the      *)
(* string that json.dumps writes for the JSON document d.                  *)
(***************************************************************************)
EXTENDS Integers, Sequences, FiniteSets, TLC

VARIABLES
    type,        \* the record type: the class attributes of the Model subclass
    unguarded,   \* Model.__unguarded__ (class level)
    exists,      \* self.__exists
    attributes,  \* self.__attributes
    original,    \* self.__original
    last,        \* the last call on the instance: what it was given, issued, returned
    inserted,    \* history: exists has gone from false to true
    deleted,     \* history: exists has gone from true to false
    calls,       \* the number of calls made on the instance
    limit,       \* the number of calls the specification follows an instance for
    pc,          \* where the caller of force_fill is: "out", "unguarded", "filled"
    peer         \* a second instance of the type, in the hands of another caller

vars == <<type, unguarded, exists, attributes, original, last, inserted, deleted, calls, limit,
          pc, peer>>

---------------------------------------------------------------------------
(* Bounds *)

\* instants a clock reading or a caller's date can take: 1..MaxTime
MaxTime == 2
\* ids the storage can generate, and primary-key values a caller can set: 1..MaxId
MaxId == 2
\* distinct strings a caller can give a text column: "1".."MaxName"
MaxName == 2
\* calls made on one instance
MaxCalls == 2
\* calls made on one instance in the lifecycle specification
MaxLifecycleCalls == 3
\* statements executed by the two callers of the shared-flag specification
MaxSharedSteps == 4
\* calls made on one instance in the primary-key specification
MaxKeyCalls == 4
\* the amount of an increment or decrement: 1..MaxAmount
MaxAmount == 2

---------------------------------------------------------------------------
(* Keys *)

ID == <<"id">>
NAME == <<"name">>
ADMIN == <<"admin">>
STAR == <<"*">>
PRIVATE == <<"_", "token">>
QUALIFIED_NAME == <<"users", ".", "name">>
QUALIFIED_ADMIN == <<"users", ".", "admin">>
\* __primary_key__ = None, and None used as a dictionary key
NONE_KEY == <<"None">>

CREATED_AT == <<"created_at">>
UPDATED_AT == <<"updated_at">>

---------------------------------------------------------------------------
(* Values *)

None == <<"none", 0>>
IntV(n) == <<"int", n>>
StrV(n) == <<"str", n>>
BoolV(b) == <<"bool", IF b THEN 1 ELSE 0>>
ArrowV(n) == <<"arrow", n>>
DatetimeV(n) == <<"dt", n>>
FloatV(n) == <<"float", n>>
ListV(s) == <<"list", s>>
TupleV(s) == <<"tuple", s>>
DictV(f) == <<"dict", f>>
\* an object() instance: no date can be read from it
ObjectV == <<"obj", 0>>

\* Python's ==: a bool is an int (True == 1); otherwise equal type and content
PyEq(a, b) ==
    IF a[1] = b[1] THEN a[2] = b[2]
    ELSE /\ a[1] \in {"int", "bool", "float"}
         /\ b[1] \in {"int", "bool", "float"}
         /\ a[2] = b[2]

\* Python's truth value: None, 0, False are false
Truthy(v) ==
    /\ v[1] # "none"
    /\ ~(v[1] \in {"int", "bool"} /\ v[2] = 0)

EmptyMap == [k \in {} |-> None]

Put(map, key, value) ==
    [k \in (DOMAIN map) \cup {key} |-> IF k = key THEN value ELSE map[k]]

Restrict(map, keys) == [k \in (DOMAIN map) \cap keys |-> map[k]]

---------------------------------------------------------------------------
(* An instance is [exists, attributes, original]; what a call leaves behind *)
(* is an outcome: the instance after it, the queries it issued, what it     *)
(* returned and the error it raised ("none": it returned).  The result of  *)
(* a call that returns an attribute value or a dictionary is "value", and  *)
(* the value is kept apart.                                                 *)

Instance(e, a, o) == [exists |-> e, attributes |-> a, original |-> o]

Outcome(m, qs, res, err) ==
    [m |-> m, queries |-> qs, result |-> res, error |-> err, value |-> None]

Returned(m, value) ==
    [m |-> m, queries |-> <<>>, result |-> "value", error |-> "none", value |-> value]

\* a query handed to the builder: its predicate (where key = value), its column
\* map, whether storage executed it, and the id it returned (insert_get_id)
Query(op, pred, cols, ok, id) ==
    [op |-> op, where |-> pred, cols |-> cols, ok |-> ok, returned |-> id]

NoWhere == <<>>

---------------------------------------------------------------------------
(* Dates and casts *)

GetDates == {CREATED_AT, UPDATED_AT}

\* arrow.Arrow -> .naive; anything else -> arrow.get(value).naive
FromDatetime(value) == DatetimeV(value[2])

\* arrow.get(value)
AsDatetime(value) == ArrowV(value[2])

HasCast(t, key) == key \in DOMAIN t.casts

GetCastType(t, key) == t.casts[key]

IsJsonCastable(t, key) ==
    IF HasCast(t, key)
    THEN GetCastType(t, key) \in {"list", "dict", "json", "object"}
    ELSE FALSE

\* the JSON document json.dumps writes for a value that holds no container:
\* null, true, false, a number or a string
EncodeScalar(value) ==
    CASE value[1] = "none" -> <<"null">>
      [] value[1] = "bool" -> IF value[2] = 1 THEN <<"true">> ELSE <<"false">>
      [] value[1] \in {"int", "float"} -> <<"number", value[1], value[2]>>
      [] OTHER -> <<"string", value[2]>>

\* the JSON document of a value: a list and a tuple are both written as an
\* array, a dictionary as an object
Encode(value) ==
    CASE value[1] \in {"list", "tuple"} ->
           <<"array", [i \in 1..Len(value[2]) |-> EncodeScalar(value[2][i])]>>
      [] value[1] = "dict" ->
           <<"object", [k \in DOMAIN value[2] |-> EncodeScalar(value[2][k])]>>
      [] OTHER -> EncodeScalar(value)

DecodeScalar(doc) ==
    CASE doc[1] = "null" -> None
      [] doc[1] = "true" -> BoolV(TRUE)
      [] doc[1] = "false" -> BoolV(FALSE)
      [] doc[1] = "number" -> <<doc[2], doc[3]>>
      [] OTHER -> StrV(doc[2])

\* the value json.loads builds from a JSON document: an array is read as a
\* list
Decode(doc) ==
    CASE doc[1] = "array" -> ListV([i \in 1..Len(doc[2]) |-> DecodeScalar(doc[2][i])])
      [] doc[1] = "object" -> DictV([k \in DOMAIN doc[2] |-> DecodeScalar(doc[2][k])])
      [] OTHER -> DecodeScalar(doc)

\* json.dumps(value): the text that encodes value
JsonDumps(value) == <<"text", Encode(value)>>

\* json.loads(text)
JsonLoads(text) == Decode(text[2])

\* the casts are applied to the values the model stores under a cast key:
\* numbers, numeric strings, booleans and the texts of json.dumps
CastAttribute(t, key, value) ==
    IF value = None THEN None
    ELSE LET ty == GetCastType(t, key) IN
         CASE ty \in {"int", "integer"} -> IntV(value[2])
           [] ty \in {"real", "float", "double"} -> FloatV(value[2])
           [] ty \in {"string", "str"} -> StrV(value[2])
           [] ty \in {"bool", "boolean"} -> BoolV(Truthy(value))
           [] ty \in {"dict", "list", "json"} -> JsonLoads(value)
           [] OTHER -> value

\* set_attribute(key, value) raises: arrow.get(value) on a value that is no
\* date (TypeError)
SetAttributeRaises(t, key, value) ==
    key \in GetDates /\ Truthy(value) /\ value = ObjectV

SetAttribute(t, attrs, key, value) ==
    LET v1 == IF key \in GetDates /\ Truthy(value) THEN FromDatetime(value) ELSE value
        v2 == IF IsJsonCastable(t, key) THEN JsonDumps(v1) ELSE v1
    IN  Put(attrs, key, v2)

GetAttributeValue(t, attrs, key) ==
    LET value == attrs[key] IN
    IF HasCast(t, key) THEN CastAttribute(t, key, value)
    ELSE IF key \in GetDates /\ value # None THEN AsDatetime(value)
    ELSE value

\* get_attribute(key): AttributeError when the key is not an attribute
GetAttribute(t, m, key) ==
    IF key \in DOMAIN m.attributes
    THEN Returned(m, GetAttributeValue(t, m.attributes, key))
    ELSE Outcome(m, <<>>, "raised", "AttributeError")

\* _format_date(date) with the format 'iso': date.isoformat()
FormatDate(date) == <<"iso", date[2]>>

\* mutant: a hidden key is left out also when there is a visible list
GetDictableItemsHiddenWins(t, values) ==
    IF t.visible # {}
    THEN Restrict(values, { k \in DOMAIN values : k \in t.visible /\ k \notin t.hidden })
    ELSE Restrict(values, { k \in DOMAIN values : k \notin t.hidden /\ k[1] # "_" })

\* the keys of values that are visible, or else not hidden and not internal
GetDictableItems(t, values) ==
    IF t.visible # {}
    THEN Restrict(values, t.visible)
    ELSE Restrict(values, { k \in DOMAIN values : k \notin t.hidden /\ k[1] # "_" })

\* attributes_to_dict(): the dictable attributes, the dates among them
\* formatted, then the cast keys among them cast
AttributesToDict(t, m) ==
    LET items == GetDictableItems(t, m.attributes)
        dated == [k \in DOMAIN items |->
                    IF k \in GetDates THEN FormatDate(AsDatetime(items[k])) ELSE items[k]]
    IN  [k \in DOMAIN dated |->
           IF HasCast(t, k) THEN CastAttribute(t, k, dated[k]) ELSE dated[k]]

\* to_dict(): the attributes and the relations, of which there are none
ToDict(t, m) == Returned(m, DictV(AttributesToDict(t, m)))

---------------------------------------------------------------------------
(* Dirty tracking *)

\* mutant: a key that original does not hold is not dirty
GetDirtyChangedOnly(m) ==
    Restrict(m.attributes,
             { k \in DOMAIN m.attributes :
                 /\ k \in DOMAIN m.original
                 /\ ~PyEq(m.attributes[k], m.original[k]) })

GetDirty(m) ==
    Restrict(m.attributes,
             { k \in DOMAIN m.attributes :
                 \/ k \notin DOMAIN m.original
                 \/ ~PyEq(m.attributes[k], m.original[k]) })

\* is_dirty(key)
IsDirty(m, key) == key \in DOMAIN GetDirty(m)

\* the loop of is_dirty over attributes[i..]
RECURSIVE IsDirtyLoop(_, _, _)
IsDirtyLoop(dirty, keys, i) ==
    IF i > Len(keys) THEN FALSE
    ELSE IF keys[i] \in DOMAIN dirty THEN TRUE
    ELSE IsDirtyLoop(dirty, keys, i + 1)

\* is_dirty(*attributes), with keys the attributes given
IsDirtyOf(m, keys) ==
    LET dirty == GetDirty(m) IN
    IF keys = <<>> THEN Cardinality(DOMAIN dirty) > 0
    ELSE IsDirtyLoop(dirty, keys, 1)

SyncOriginal(m) == [m EXCEPT !.original = m.attributes]

\* mutant: the key leaves original as well
DelAttrForgetsOriginal(m, key) ==
    IF key \in DOMAIN m.attributes
    THEN Outcome([m EXCEPT !.attributes = Restrict(@, (DOMAIN @) \ {key}),
                           !.original = Restrict(@, (DOMAIN @) \ {key})],
                 <<>>, "None", "none")
    ELSE Outcome(m, <<>>, "raised", "AttributeError")

\* del model.key: the key leaves attributes; KeyError becomes AttributeError
DelAttr(m, key) ==
    IF key \in DOMAIN m.attributes
    THEN Outcome([m EXCEPT !.attributes = Restrict(@, (DOMAIN @) \ {key})], <<>>, "None", "none")
    ELSE Outcome(m, <<>>, "raised", "AttributeError")

\* mutant: the current value is read with a default, so that an absent
\* attribute is copied as None
SyncOriginalAttributeOfAbsent(m, attribute) ==
    Outcome([m EXCEPT !.original =
                 Put(@, attribute,
                     IF attribute \in DOMAIN m.attributes THEN m.attributes[attribute] ELSE None)],
            <<>>, "self", "none")

\* sync_original_attribute(attribute): the lookup in attributes raises KeyError
SyncOriginalAttribute(m, attribute) ==
    IF attribute \in DOMAIN m.attributes
    THEN Outcome([m EXCEPT !.original = Put(@, attribute, m.attributes[attribute])],
                 <<>>, "self", "none")
    ELSE Outcome(m, <<>>, "raised", "KeyError")

---------------------------------------------------------------------------
(* Mass-assignment guard *)

StartsWithUnderscore(key) == key[1] = "_"

RemoveTableFromKey(key) ==
    IF \A i \in 1..Len(key) : key[i] # "."
    THEN key
    ELSE LET dot == CHOOSE i \in 1..Len(key) :
                      /\ key[i] = "."
                      /\ \A j \in (i + 1)..Len(key) : key[j] # "."
         IN  SubSeq(key, dot + 1, Len(key))

\* mutant: '*' is a name like any other, not a wildcard
IsGuardedListedOnly(t, key) == key \in t.guarded

IsGuarded(t, key) == key \in t.guarded \/ t.guarded = {STAR}

\* mutant: the flag unguarded is not consulted
IsFillableIgnoresUnguarded(t, ug, key) ==
    IF key \in t.fillable THEN TRUE
    ELSE IF IsGuarded(t, key) THEN FALSE
    ELSE t.fillable = {} /\ ~StartsWithUnderscore(key)

\* mutant: the guarded list is consulted before the fillable one
IsFillableGuardedFirst(t, ug, key) ==
    IF ug THEN TRUE
    ELSE IF IsGuarded(t, key) THEN FALSE
    ELSE IF key \in t.fillable THEN TRUE
    ELSE t.fillable = {} /\ ~StartsWithUnderscore(key)

IsFillable(t, ug, key) ==
    IF ug THEN TRUE
    ELSE IF key \in t.fillable THEN TRUE
    ELSE IF IsGuarded(t, key) THEN FALSE
    ELSE t.fillable = {} /\ ~StartsWithUnderscore(key)

TotallyGuarded(t) == Cardinality(t.fillable) = 0 /\ t.guarded = {STAR}



\* mutant: the input is cut down to the fillable keys whatever the flag
FillableFromDictIgnoresUnguarded(t, ug, input) ==
    IF t.fillable # {}
    THEN SelectSeq(input, LAMBDA kv : kv[1] \in t.fillable)
    ELSE input

\* the input of fill is a sequence of <<key, value>> pairs with distinct keys:
\* the keyword dictionary in its iteration order
FillableFromDict(t, ug, input) ==
    IF t.fillable # {} /\ ~ug
    THEN SelectSeq(input, LAMBDA kv : kv[1] \in t.fillable)
    ELSE input

\* mutant: a key that is not fillable raises whether or not the type is
\* totally guarded
RECURSIVE FillLoopRaisesOnAnyGuarded(_, _, _, _, _, _)
FillLoopRaisesOnAnyGuarded(t, ug, totally, m, items, i) ==
    IF i > Len(items) THEN Outcome(m, <<>>, "self", "none")
    ELSE LET key == RemoveTableFromKey(items[i][1]) IN
         IF IsFillable(t, ug, key)
         THEN FillLoopRaisesOnAnyGuarded(t, ug, totally,
                       [m EXCEPT !.attributes = SetAttribute(t, @, key, items[i][2])],
                       items, i + 1)
         ELSE Outcome(m, <<>>, "raised", "MassAssignmentError")

\* the loop of fill over items[i..], on the attributes so far
RECURSIVE FillLoop(_, _, _, _, _, _)
FillLoop(t, ug, totally, m, items, i) ==
    IF i > Len(items) THEN Outcome(m, <<>>, "self", "none")
    ELSE LET key == RemoveTableFromKey(items[i][1]) IN
         IF IsFillable(t, ug, key)
         THEN IF SetAttributeRaises(t, key, items[i][2])
              THEN Outcome(m, <<>>, "raised", "TypeError")
              ELSE FillLoop(t, ug, totally,
                            [m EXCEPT !.attributes = SetAttribute(t, @, key, items[i][2])],
                            items, i + 1)
         ELSE IF totally THEN Outcome(m, <<>>, "raised", "MassAssignmentError")
         ELSE FillLoop(t, ug, totally, m, items, i + 1)

Fill(t, ug, m, input) ==
    FillLoop(t, ug, TotallyGuarded(t), m, FillableFromDict(t, ug, input), 1)

\* force_fill: unguard(), fill(), reguard(); the flag it leaves is the second
\* component (reguard() is not reached when fill raises)
ForceFill(t, m, input) ==
    LET out == Fill(t, TRUE, m, input) IN
    <<out, IF out.error = "none" THEN FALSE ELSE TRUE>>

---------------------------------------------------------------------------
(* Persistence.  now is the reading of fresh_timestamp(); db is what the    *)
(* storage does with the query of this call: [ok |-> it executes (FALSE:    *)
(* it raises), id |-> the id insert_get_id returns].                        *)

GetKeyName(t) == t.primary_key

\* set_updated_at / set_created_at: setattr -> __setattr__ -> set_attribute
SetUpdatedAt(t, m, value) ==
    [m EXCEPT !.attributes = SetAttribute(t, @, UPDATED_AT, value)]

SetCreatedAt(t, m, value) ==
    [m EXCEPT !.attributes = SetAttribute(t, @, CREATED_AT, value)]

\* mutant: updated_at is stamped whether or not it is dirty
UpdateTimestampsOverwrites(t, m, now) ==
    LET m1 == SetUpdatedAt(t, m, now)
    IN  IF ~m1.exists /\ ~IsDirty(m1, CREATED_AT) THEN SetCreatedAt(t, m1, now) ELSE m1

\* mutant: created_at is stamped also on an instance that exists
UpdateTimestampsCreatesAlways(t, m, now) ==
    LET m1 == IF ~IsDirty(m, UPDATED_AT) THEN SetUpdatedAt(t, m, now) ELSE m
    IN  IF ~IsDirty(m1, CREATED_AT) THEN SetCreatedAt(t, m1, now) ELSE m1

UpdateTimestamps(t, m, now) ==
    LET m1 == IF ~IsDirty(m, UPDATED_AT) THEN SetUpdatedAt(t, m, now) ELSE m
    IN  IF ~m1.exists /\ ~IsDirty(m1, CREATED_AT) THEN SetCreatedAt(t, m1, now) ELSE m1

\* mutant: the current value of the key is preferred to the original one
GetKeyForSaveQueryCurrent(t, m) ==
    IF GetKeyName(t) \in DOMAIN m.attributes
    THEN <<TRUE, m.attributes[GetKeyName(t)]>>
    ELSE IF GetKeyName(t) \in DOMAIN m.original
    THEN <<TRUE, m.original[GetKeyName(t)]>>
    ELSE <<FALSE, None>>

\* the key of the update's predicate: <<TRUE, value>>, or <<FALSE, None>> when
\* the lookup in attributes raises KeyError
GetKeyForSaveQuery(t, m) ==
    IF GetKeyName(t) \in DOMAIN m.original
    THEN <<TRUE, m.original[GetKeyName(t)]>>
    ELSE IF GetKeyName(t) \in DOMAIN m.attributes
    THEN <<TRUE, m.attributes[GetKeyName(t)]>>
    ELSE <<FALSE, None>>

\* mutant: the timestamps are stamped before dirty() is first asked
PerformUpdateStampsFirst(t, m, now, db) ==
    LET m1 == IF t.timestamps THEN UpdateTimestamps(t, m, now) ELSE m
        dirty == GetDirty(m1)
        key == GetKeyForSaveQuery(t, m1)
        q == Query("update", <<GetKeyName(t), key[2]>>, dirty, db.ok, None)
    IN  IF DOMAIN dirty = {} THEN Outcome(m1, <<>>, "True", "none")
        ELSE IF ~key[1] THEN Outcome(m1, <<>>, "raised", "KeyError")
        ELSE IF ~db.ok THEN Outcome(m1, <<q>>, "raised", "StorageError")
        ELSE Outcome(m1, <<q>>, "True", "none")

PerformUpdate(t, m, now, db) ==
    IF DOMAIN GetDirty(m) = {} THEN Outcome(m, <<>>, "True", "none")
    ELSE LET m1 == IF t.timestamps THEN UpdateTimestamps(t, m, now) ELSE m
             dirty == GetDirty(m1)
             key == GetKeyForSaveQuery(t, m1)
             q == Query("update", <<GetKeyName(t), key[2]>>, dirty, db.ok, None)
         IN  IF DOMAIN dirty = {} THEN Outcome(m1, <<>>, "True", "none")
             ELSE IF ~key[1] THEN Outcome(m1, <<>>, "raised", "KeyError")
             ELSE IF ~db.ok THEN Outcome(m1, <<q>>, "raised", "StorageError")
             ELSE Outcome(m1, <<q>>, "True", "none")

\* mutant: the returned id is not written to the instance
InsertAndDropId(t, m, db) ==
    LET q == Query("insert_get_id", NoWhere, m.attributes, db.ok,
                   IF db.ok THEN IntV(db.id) ELSE None)
    IN  IF ~db.ok THEN Outcome(m, <<q>>, "raised", "StorageError")
        ELSE Outcome(m, <<q>>, "None", "none")

\* insert_get_id, then set_attribute(key_name, id)
InsertAndSetId(t, m, db) ==
    LET q == Query("insert_get_id", NoWhere, m.attributes, db.ok,
                   IF db.ok THEN IntV(db.id) ELSE None)
    IN  IF ~db.ok THEN Outcome(m, <<q>>, "raised", "StorageError")
        ELSE Outcome([m EXCEPT !.attributes = SetAttribute(t, @, GetKeyName(t), IntV(db.id))],
                     <<q>>, "None", "none")

\* mutant: exists is set before the insert is issued
PerformInsertExistsFirst(t, m, now, db) ==
    LET m1 == [(IF t.timestamps THEN UpdateTimestamps(t, m, now) ELSE m) EXCEPT !.exists = TRUE]
        q == Query("insert", NoWhere, m1.attributes, db.ok, None)
    IN  IF t.incrementing THEN InsertAndSetId(t, m1, db)
        ELSE IF ~db.ok THEN Outcome(m1, <<q>>, "raised", "StorageError")
        ELSE Outcome(m1, <<q>>, "True", "none")

\* mutant: the insert does not stamp the timestamps
PerformInsertUnstamped(t, m, now, db) ==
    LET q == Query("insert", NoWhere, m.attributes, db.ok, None)
        ins == IF t.incrementing THEN InsertAndSetId(t, m, db)
               ELSE IF ~db.ok THEN Outcome(m, <<q>>, "raised", "StorageError")
               ELSE Outcome(m, <<q>>, "None", "none")
    IN  IF ins.error # "none" THEN ins
        ELSE Outcome([ins.m EXCEPT !.exists = TRUE], ins.queries, "True", "none")

PerformInsert(t, m, now, db) ==
    LET m1 == IF t.timestamps THEN UpdateTimestamps(t, m, now) ELSE m
        q == Query("insert", NoWhere, m1.attributes, db.ok, None)
        ins == IF t.incrementing THEN InsertAndSetId(t, m1, db)
               ELSE IF ~db.ok THEN Outcome(m1, <<q>>, "raised", "StorageError")
               ELSE Outcome(m1, <<q>>, "None", "none")
    IN  IF ins.error # "none" THEN ins
        ELSE Outcome([ins.m EXCEPT !.exists = TRUE], ins.queries, "True", "none")

\* mutant: a finished save leaves original as it was
FinishSaveWithoutSync(m) == m

\* mutant: a finished save syncs every attribute but the primary key
FinishSaveKeepsKey(m) ==
    [m EXCEPT !.original =
        [k \in DOMAIN m.attributes |->
           IF k = ID /\ k \in DOMAIN m.original THEN m.original[k] ELSE m.attributes[k]]]

FinishSave(m) == SyncOriginal(m)

\* mutant: the save is finished (original synced) also when the query raised
SaveFinishesOnError(t, m, now, db) ==
    LET out == IF m.exists THEN PerformUpdate(t, m, now, db)
               ELSE PerformInsert(t, m, now, db)
    IN  [out EXCEPT !.m = FinishSave(out.m)]

Save(t, m, now, db) ==
    LET out == IF m.exists THEN PerformUpdate(t, m, now, db)
               ELSE PerformInsert(t, m, now, db)
    IN  IF out.error = "none" /\ out.result = "True"
        THEN [out EXCEPT !.m = FinishSave(out.m)]
        ELSE out

\* mutant: the delete is keyed on the key as loaded, as the update of save is
PerformDeleteOnModelOriginalKey(t, m, db) ==
    IF GetKeyName(t) \notin DOMAIN m.attributes
    THEN Outcome(m, <<>>, "raised", "AttributeError")
    ELSE LET q == Query("delete", <<GetKeyName(t), GetKeyForSaveQuery(t, m)[2]>>,
                        EmptyMap, db.ok, None)
         IN  IF ~db.ok THEN Outcome(m, <<q>>, "raised", "StorageError")
             ELSE Outcome(m, <<q>>, "count", "none")

\* where(key_name, get_key()).delete(); get_key() raises AttributeError when
\* the key is not an attribute
PerformDeleteOnModel(t, m, db) ==
    IF GetKeyName(t) \notin DOMAIN m.attributes
    THEN Outcome(m, <<>>, "raised", "AttributeError")
    ELSE LET q == Query("delete",
                        <<GetKeyName(t), GetAttributeValue(t, m.attributes, GetKeyName(t))>>,
                        EmptyMap, db.ok, None)
         IN  IF ~db.ok THEN Outcome(m, <<q>>, "raised", "StorageError")
             ELSE Outcome(m, <<q>>, "count", "none")

\* mutant: the primary key is looked for only once the instance exists
DeleteChecksExistsFirst(t, m, db) ==
    IF m.exists
    THEN IF GetKeyName(t) = NONE_KEY THEN Outcome(m, <<>>, "raised", "Exception")
         ELSE LET out == PerformDeleteOnModel(t, m, db) IN
              IF out.error # "none" THEN out
              ELSE Outcome([out.m EXCEPT !.exists = FALSE], out.queries, "True", "none")
    ELSE Outcome(m, <<>>, "None", "none")

Delete(t, m, db) ==
    IF GetKeyName(t) = NONE_KEY THEN Outcome(m, <<>>, "raised", "Exception")
    ELSE IF m.exists
    THEN LET out == PerformDeleteOnModel(t, m, db) IN
         IF out.error # "none" THEN out
         ELSE Outcome([out.m EXCEPT !.exists = FALSE], out.queries, "True", "none")
    ELSE Outcome(m, <<>>, "None", "none")

\* mutant: touch() does not ask whether the type uses timestamps
TouchAnyType(t, m, now, now2, db) ==
    Save(t, UpdateTimestamps(t, m, now), now2, db)

\* touch(): the second reading of the clock is the one save() takes
Touch(t, m, now, now2, db) ==
    IF ~t.timestamps THEN Outcome(m, <<>>, "False", "none")
    ELSE Save(t, UpdateTimestamps(t, m, now), now2, db)

\* mutant: the attributes of update are filled past the guard
UpdateUnguarded(t, ug, m, input, now, db) ==
    IF ~m.exists
    THEN LET q == Query("update", NoWhere,
                        [k \in { input[i][1] : i \in 1..Len(input) } |->
                           LET i == CHOOSE j \in 1..Len(input) : input[j][1] = k
                           IN  input[i][2]],
                        db.ok, None)
         IN  IF ~db.ok THEN Outcome(m, <<q>>, "raised", "StorageError")
             ELSE Outcome(m, <<q>>, "count", "none")
    ELSE LET filled == Fill(t, TRUE, m, input) IN
         IF filled.error # "none" THEN filled
         ELSE Save(t, filled.m, now, db)

\* update(**attributes): on a new instance the builder's update, with no where
Update(t, ug, m, input, now, db) ==
    IF ~m.exists
    THEN LET q == Query("update", NoWhere,
                        [k \in { input[i][1] : i \in 1..Len(input) } |->
                           LET i == CHOOSE j \in 1..Len(input) : input[j][1] = k
                           IN  input[i][2]],
                        db.ok, None)
         IN  IF ~db.ok THEN Outcome(m, <<q>>, "raised", "StorageError")
             ELSE Outcome(m, <<q>>, "count", "none")
    ELSE LET filled == Fill(t, ug, m, input) IN
         IF filled.error # "none" THEN filled
         ELSE Save(t, filled.m, now, db)

\* mutant: the whole of original is synced after the column is changed
IncrementOrDecrementSyncsAll(t, m, column, amount, method, db) ==
    LET delta == IF method = "increment" THEN amount ELSE 0 - amount
        got == GetAttribute(t, m, column)
    IN
    IF ~m.exists
    THEN LET q == Query(method, NoWhere, Put(EmptyMap, column, IntV(amount)), db.ok, None)
         IN  IF ~db.ok THEN Outcome(m, <<q>>, "raised", "StorageError")
             ELSE Outcome(m, <<q>>, "count", "none")
    ELSE IF got.error # "none" THEN got
    ELSE IF got.value[1] \notin {"int", "float", "bool"}
    THEN Outcome(m, <<>>, "raised", "TypeError")
    ELSE LET sum == <<IF got.value[1] = "float" THEN "float" ELSE "int", got.value[2] + delta>>
             m1 == [m EXCEPT !.attributes = SetAttribute(t, @, column, sum)]
             m2 == SyncOriginal(m1)
             q == Query(method,
                        <<GetKeyName(t),
                          IF GetKeyName(t) \in DOMAIN m2.attributes
                          THEN GetAttributeValue(t, m2.attributes, GetKeyName(t)) ELSE None>>,
                        Put(EmptyMap, column, IntV(amount)), db.ok, None)
         IN  IF GetKeyName(t) \notin DOMAIN m2.attributes
             THEN Outcome(m2, <<>>, "raised", "AttributeError")
             ELSE IF ~db.ok THEN Outcome(m2, <<q>>, "raised", "StorageError")
             ELSE Outcome(m2, <<q>>, "count", "none")

\* mutant: the query is issued first, and the column changed once it has
\* executed
IncrementOrDecrementQueryFirst(t, m, column, amount, method, db) ==
    LET delta == IF method = "increment" THEN amount ELSE 0 - amount
        got == GetAttribute(t, m, column)
    IN
    IF ~m.exists
    THEN LET q == Query(method, NoWhere, Put(EmptyMap, column, IntV(amount)), db.ok, None)
         IN  IF ~db.ok THEN Outcome(m, <<q>>, "raised", "StorageError")
             ELSE Outcome(m, <<q>>, "count", "none")
    ELSE IF got.error # "none" THEN got
    ELSE IF got.value[1] \notin {"int", "float", "bool"}
    THEN Outcome(m, <<>>, "raised", "TypeError")
    ELSE LET sum == <<IF got.value[1] = "float" THEN "float" ELSE "int", got.value[2] + delta>>
             m1 == [m EXCEPT !.attributes = SetAttribute(t, @, column, sum)]
             m2 == SyncOriginalAttribute(m1, column).m
             q == Query(method,
                        <<GetKeyName(t),
                          IF GetKeyName(t) \in DOMAIN m2.attributes
                          THEN GetAttributeValue(t, m2.attributes, GetKeyName(t)) ELSE None>>,
                        Put(EmptyMap, column, IntV(amount)), db.ok, None)
         IN  IF GetKeyName(t) \notin DOMAIN m2.attributes
             THEN Outcome(m2, <<>>, "raised", "AttributeError")
             ELSE IF ~db.ok THEN Outcome(m, <<q>>, "raised", "StorageError")
             ELSE Outcome(m2, <<q>>, "count", "none")

\* _increment_or_decrement(column, amount, method).  On an instance that
\* exists: setattr(column, getattr(column) +/- amount), where getattr raises
\* AttributeError on an absent column and the sum TypeError on a value that is
\* not a number; sync_original_attribute(column); then the query, keyed on
\* get_key().
IncrementOrDecrement(t, m, column, amount, method, db) ==
    LET delta == IF method = "increment" THEN amount ELSE 0 - amount
        got == GetAttribute(t, m, column)
    IN
    IF ~m.exists
    THEN LET q == Query(method, NoWhere, Put(EmptyMap, column, IntV(amount)), db.ok, None)
         IN  IF ~db.ok THEN Outcome(m, <<q>>, "raised", "StorageError")
             ELSE Outcome(m, <<q>>, "count", "none")
    ELSE IF got.error # "none" THEN got
    ELSE IF got.value[1] \notin {"int", "float", "bool"}
    THEN Outcome(m, <<>>, "raised", "TypeError")
    ELSE LET sum == <<IF got.value[1] = "float" THEN "float" ELSE "int", got.value[2] + delta>>
             m1 == [m EXCEPT !.attributes = SetAttribute(t, @, column, sum)]
             m2 == SyncOriginalAttribute(m1, column).m
             q == Query(method,
                        <<GetKeyName(t),
                          IF GetKeyName(t) \in DOMAIN m2.attributes
                          THEN GetAttributeValue(t, m2.attributes, GetKeyName(t)) ELSE None>>,
                        Put(EmptyMap, column, IntV(amount)), db.ok, None)
         IN  IF GetKeyName(t) \notin DOMAIN m2.attributes
             THEN Outcome(m2, <<>>, "raised", "AttributeError")
             ELSE IF ~db.ok THEN Outcome(m2, <<q>>, "raised", "StorageError")
             ELSE Outcome(m2, <<q>>, "count", "none")

\* mutant: the attributes are replaced and never synced
SetRawAttributesWithoutSync(m, attrs, sync) == [m EXCEPT !.attributes = attrs]

\* new_from_builder(attributes): new_instance({}, True), then
\* set_raw_attributes(attributes, True)
SetRawAttributes(m, attrs, sync) ==
    LET m1 == [m EXCEPT !.attributes = attrs] IN
    IF sync THEN SyncOriginal(m1) ELSE m1

\* create(**attributes) under the flag ug: cls(**attributes), model.save(),
\* return model
Create(t, ug, input, now, db) ==
    LET made == Fill(t, ug, SyncOriginal(Instance(FALSE, EmptyMap, EmptyMap)), input)
        Returning(saved) ==
            IF saved.error # "none" THEN saved
            ELSE Outcome(saved.m, saved.queries, "instance", "none")
    IN  IF made.error # "none" THEN made
        ELSE Returning(Save(t, made.m, now, db))

\* mutant: reguard() is reached also when create() raises
ForceCreateAlwaysReguards(t, input, now, db) ==
    <<Create(t, TRUE, input, now, db), FALSE>>

\* force_create: unguard(), create(), reguard(); the flag it leaves is the
\* second component (reguard() is not reached when create raises)
ForceCreate(t, input, now, db) ==
    LET Leaving(out) == <<out, IF out.error = "none" THEN FALSE ELSE TRUE>>
    IN  Leaving(Create(t, TRUE, input, now, db))

\* Model(): __exists False, both maps empty, sync_original(), fill() of nothing
NewModel(t, ug) == Fill(t, ug, SyncOriginal(Instance(FALSE, EmptyMap, EmptyMap)), <<>>).m

NewInstance(t, ug, e) == [NewModel(t, ug) EXCEPT !.exists = e]

NewFromBuilder(t, ug, row) == SetRawAttributes(NewInstance(t, ug, TRUE), row, TRUE)

\* the items of a dictionary, as the sequence of <<key, value>> pairs fill
\* iterates over
RECURSIVE DictItems(_)
DictItems(map) ==
    IF DOMAIN map = {} THEN <<>>
    ELSE LET k == CHOOSE x \in DOMAIN map : TRUE
         IN  <<<<k, map[k]>>>> \o DictItems(Restrict(map, DOMAIN map \ {k}))

\* new_instance(attributes, exists): self.__class__(**attributes), whose
\* constructor fills them through the guard, then set_exists(exists)
NewInstanceWith(t, ug, attrs, e) ==
    LET out == Fill(t, ug, SyncOriginal(Instance(FALSE, EmptyMap, EmptyMap)), DictItems(attrs))
    IN  IF out.error # "none" THEN out
        ELSE Outcome([out.m EXCEPT !.exists = e], <<>>, "instance", "none")

\* replicate(except_), with except_ either <<"omitted">> or <<"given", keys>>.
\* The body that builds and returns the instance is inside the branch
\* `if except_ is None`: with except_ given, the method falls off its end and
\* returns None.  The outcome's m is the instance returned, if any.
Replicate(t, ug, m, except) ==
    IF except[1] = "given"
    THEN Outcome(m, <<>>, "None", "none")
    ELSE LET keys == {GetKeyName(t), CREATED_AT, UPDATED_AT}
         IN  NewInstanceWith(t, ug, Restrict(m.attributes, DOMAIN m.attributes \ keys), FALSE)

---------------------------------------------------------------------------
(* The record types, rows and inputs of the model *)

Times == 1..MaxTime
Ids == 1..MaxId
Names == 1..MaxName

RecordType(pk, inc, ts, fillable, guarded) ==
    [primary_key |-> pk, incrementing |-> inc, timestamps |-> ts,
     fillable |-> fillable, guarded |-> guarded, casts |-> EmptyMap,
     hidden |-> {}, visible |-> {}]

\* the types of the persistence specification: every choice of primary key,
\* incrementing and timestamps, with name the one fillable column
PersistTypes ==
    { RecordType(ID, inc, ts, {NAME}, {STAR}) : inc \in BOOLEAN, ts \in BOOLEAN }
    \cup { RecordType(NONE_KEY, TRUE, TRUE, {NAME}, {STAR}) }

PersistKeys == {ID, NAME, CREATED_AT, UPDATED_AT}

\* what storage holds in a column
StoredValues(k) ==
    IF k = ID THEN { IntV(n) : n \in Ids }
    ELSE IF k \in GetDates THEN { DatetimeV(n) : n \in Times }
    ELSE { StrV(n) : n \in Names }

\* what a caller assigns to a column
InputValues(k) ==
    IF k = ID THEN { IntV(n) : n \in Ids }
    ELSE IF k \in GetDates THEN { ArrowV(n) : n \in Times }
    ELSE { StrV(n) : n \in Names }

\* the row a select returns: every column present, written in one save
Rows ==
    { [k \in PersistKeys |->
         IF k = ID THEN IntV(1) ELSE IF k = NAME THEN StrV(1) ELSE DatetimeV(1)] }

\* the inputs of fill and update in the persistence specification
PersistInputs == UNION { { <<<<k, v>>>> : v \in InputValues(k) } : k \in {ID, NAME} }

\* storage executes the query and generates an id, or raises
Storage == { [ok |-> TRUE, id |-> i] : i \in Ids } \cup { [ok |-> FALSE, id |-> 0] }

\* storage answering a query that generates no id (update, delete, increment,
\* decrement): it executes, or raises
Answers == { [ok |-> ok, id |-> 0] : ok \in BOOLEAN }

\* the types of the guard specification: every fillable and guarded list over
\* these, none of them with timestamps
GuardTypes ==
    { RecordType(ID, TRUE, FALSE, fillable, guarded) :
        fillable \in {{}, {NAME}}, guarded \in {{STAR}, {ADMIN}, {}} }

GuardKeys == {NAME, ADMIN, PRIVATE, QUALIFIED_NAME, QUALIFIED_ADMIN}

GuardValues(k) ==
    IF RemoveTableFromKey(k) = NAME THEN { StrV(n) : n \in Names } ELSE { BoolV(TRUE) }

WellFormed(input) ==
    /\ \A i \in 1..Len(input) : input[i][2] \in GuardValues(input[i][1])
    /\ \A i \in 1..Len(input) : \A j \in 1..Len(input) : i # j => input[i][1] # input[j][1]

\* keyword dictionaries of at most two keys, in either iteration order
GuardInputs ==
  LET all ==
    {<<>>}
    \cup { <<<<k, v>>>> : k \in GuardKeys, v \in UNION { GuardValues(x) : x \in GuardKeys } }
    \cup { <<<<k1, v1>>, <<k2, v2>>>> :
             k1 \in GuardKeys, k2 \in GuardKeys,
             v1 \in UNION { GuardValues(x) : x \in GuardKeys },
             v2 \in UNION { GuardValues(x) : x \in GuardKeys } }
  IN  { input \in all : WellFormed(input) }

InputKeys(input) == { input[i][1] : i \in 1..Len(input) }

---------------------------------------------------------------------------
(* Actions: one call on the instance each *)

Self == Instance(exists, attributes, original)

\* a call that was given arg, with clock the readings of fresh_timestamp() it
\* had at hand
CalledAt(op, arg, clock, out, ug) ==
    /\ calls' = calls + 1
    /\ exists' = out.m.exists
    /\ attributes' = out.m.attributes
    /\ original' = out.m.original
    /\ unguarded' = ug
    /\ last' = [op |-> op, arg |-> arg, clock |-> clock, queries |-> out.queries,
                result |-> out.result, value |-> out.value, error |-> out.error]
    /\ inserted' = (inserted \/ (~exists /\ out.m.exists))
    /\ deleted' = (deleted \/ (exists /\ ~out.m.exists))
    /\ UNCHANGED <<type, limit, pc, peer>>

Called(op, arg, out, ug) == CalledAt(op, arg, <<>>, out, ug)

\* a call or a statement that may also write the second instance: what it
\* leaves of the instance (out), of the flag, of the position of the caller
\* of force_fill and of the second instance
Stepped(op, arg, out, ug, at, p) ==
    /\ calls' = calls + 1
    /\ exists' = out.m.exists
    /\ attributes' = out.m.attributes
    /\ original' = out.m.original
    /\ unguarded' = ug
    /\ pc' = at
    /\ peer' = p
    /\ last' = [op |-> op, arg |-> arg, clock |-> <<>>, queries |-> out.queries,
                result |-> out.result, value |-> out.value, error |-> out.error]
    /\ UNCHANGED <<type, limit, inserted, deleted>>

Constructed(t, ug, m, op, lim) ==
    /\ type = t
    /\ unguarded = ug
    /\ exists = m.exists
    /\ attributes = m.attributes
    /\ original = m.original
    /\ last = [op |-> op, arg |-> <<>>, clock |-> <<>>, queries |-> <<>>,
               result |-> "self", value |-> None, error |-> "none"]
    /\ inserted = FALSE
    /\ deleted = FALSE
    /\ calls = 0
    /\ limit = lim
    /\ pc = "out"
    /\ peer = NewModel(t, ug)

\* model.key = value
SetAttr ==
    /\ calls < limit
    /\ \E k \in PersistKeys : \E v \in InputValues(k) :
         Called("set", <<<<k, v>>>>,
                Outcome([Self EXCEPT !.attributes = SetAttribute(type, @, k, v)],
                        <<>>, "None", "none"),
                unguarded)

FillAttrs ==
    /\ calls < limit
    /\ \E input \in PersistInputs :
         Called("fill", input, Fill(type, unguarded, Self, input), unguarded)

SyncModel ==
    /\ calls < limit
    /\ Called("sync", <<>>, Outcome(SyncOriginal(Self), <<>>, "self", "none"), unguarded)

SaveModel ==
    /\ calls < limit
    /\ \E now \in Times : \E db \in Storage :
         CalledAt("save", <<>>, <<ArrowV(now)>>, Save(type, Self, ArrowV(now), db), unguarded)

UpdateModel ==
    /\ calls < limit
    /\ \E input \in PersistInputs : \E now \in Times : \E db \in Answers :
         CalledAt("update", input, <<ArrowV(now)>>,
                  Update(type, unguarded, Self, input, ArrowV(now), db), unguarded)

DeleteModel ==
    /\ calls < limit
    /\ \E db \in Answers :
         Called("delete", <<>>, Delete(type, Self, db), unguarded)

TouchModel ==
    /\ calls < limit
    /\ \E now \in Times : \E now2 \in Times : \E db \in Storage :
         CalledAt("touch", <<>>, <<ArrowV(now), ArrowV(now2)>>,
                  Touch(type, Self, ArrowV(now), ArrowV(now2), db), unguarded)

Init ==
    \E t \in PersistTypes :
        \/ Constructed(t, FALSE, NewModel(t, FALSE), "new", MaxCalls)
        \/ \E row \in Rows :
             Constructed(t, FALSE, NewFromBuilder(t, FALSE, row), "new_from_builder", MaxCalls)

Next ==
    \/ SetAttr
    \/ FillAttrs
    \/ SyncModel
    \/ SaveModel
    \/ UpdateModel
    \/ DeleteModel
    \/ TouchModel

Spec == Init /\ [][Next]_vars

\* the lifecycle specification: a new instance, followed for more calls
LifecycleTypes ==
    { RecordType(ID, TRUE, TRUE, {NAME}, {STAR}),
      RecordType(ID, FALSE, FALSE, {NAME}, {STAR}) }

InitLifecycle ==
    \E t \in LifecycleTypes :
        Constructed(t, FALSE, NewModel(t, FALSE), "new", MaxLifecycleCalls)

SpecLifecycle == InitLifecycle /\ [][Next]_vars

---------------------------------------------------------------------------
(* The tracking specification: every operation that writes attributes or   *)
(* original, on a new and on a hydrated instance                           *)

TrackTypes == { RecordType(ID, TRUE, ts, {NAME}, {STAR}) : ts \in BOOLEAN }

\* the maps set_raw_attributes is given: a partial row, or a full one
RawMaps == { [k \in {NAME} |-> StrV(n)] : n \in Names } \cup Rows

\* del model.key
DelAttrModel ==
    /\ calls < limit
    /\ \E k \in PersistKeys :
         Called("delattr", <<k>>, DelAttr(Self, k), unguarded)

\* model.set_raw_attributes(attributes, sync)
SetRawModel ==
    /\ calls < limit
    /\ \E attrs \in RawMaps : \E sync \in BOOLEAN :
         Called("raw_replace", <<attrs, sync>>,
                Outcome(SetRawAttributes(Self, attrs, sync), <<>>, "None", "none"),
                unguarded)

\* model.sync_original_attribute(key)
SyncOneModel ==
    /\ calls < limit
    /\ \E k \in PersistKeys :
         Called("sync_one", <<k>>, SyncOriginalAttribute(Self, k), unguarded)

InitTracking ==
    \E t \in TrackTypes :
        \/ Constructed(t, FALSE, NewModel(t, FALSE), "new", MaxCalls)
        \/ \E row \in Rows :
             Constructed(t, FALSE, NewFromBuilder(t, FALSE, row), "new_from_builder", MaxCalls)

NextTracking ==
    \/ SetAttr
    \/ FillAttrs
    \/ DelAttrModel
    \/ SetRawModel
    \/ SyncModel
    \/ SyncOneModel
    \/ SaveModel
    \/ DeleteModel

SpecTracking == InitTracking /\ [][NextTracking]_vars

---------------------------------------------------------------------------
(* The cast specification: one key with a structured cast, set and read    *)
(* back                                                                    *)

OPTIONS == <<"options">>

CastKinds == {"list", "dict", "json", "object"}

CastTypes ==
    { [RecordType(ID, TRUE, FALSE, {}, {STAR}) EXCEPT !.casts = [k \in {OPTIONS} |-> kind]] :
        kind \in CastKinds }

Scalars ==
    {None, BoolV(TRUE), BoolV(FALSE)}
    \cup { IntV(n) : n \in Ids }
    \cup { StrV(n) : n \in Names }

\* what a caller assigns to the key: a scalar, null, a list, a dictionary with
\* a string key, or a tuple
CastInputs ==
    Scalars
    \cup { ListV(<<>>), DictV(EmptyMap) }
    \cup { ListV(<<s>>) : s \in Scalars }
    \cup { DictV([k \in {"a"} |-> s]) : s \in Scalars }
    \cup { TupleV(<<s>>) : s \in Scalars }

\* model.options = value
SetCast ==
    /\ calls < limit
    /\ \E v \in CastInputs :
         Called("set", <<<<OPTIONS, v>>>>,
                Outcome([Self EXCEPT !.attributes = SetAttribute(type, @, OPTIONS, v)],
                        <<>>, "None", "none"),
                unguarded)

\* model.options
GetCast ==
    /\ calls < limit
    /\ Called("get", <<OPTIONS>>, GetAttribute(type, Self, OPTIONS), unguarded)

\* model.to_dict()
ToDictCast ==
    /\ calls < limit
    /\ Called("to_dict", <<>>, ToDict(type, Self), unguarded)

InitCast ==
    \E t \in CastTypes : Constructed(t, FALSE, NewModel(t, FALSE), "new", MaxCalls)

NextCast ==
    \/ SetCast
    \/ GetCast
    \/ ToDictCast

SpecCast == InitCast /\ [][NextCast]_vars

---------------------------------------------------------------------------
(* The counter specification: a row with a numeric column, incremented,    *)
(* decremented and asked what is dirty                                     *)

VOTES == <<"votes">>

\* the amounts increment and decrement are given: 1..MaxAmount
Amounts == 1..MaxAmount

CounterTypes == { RecordType(ID, TRUE, FALSE, {NAME}, {STAR}) }

CounterRows ==
    { [k \in PersistKeys \cup {VOTES} |-> IF k = VOTES THEN IntV(0) ELSE row[k]] : row \in Rows }

\* the arguments is_dirty is given
DirtyArgs == {<<>>, <<ID>>, <<NAME>>, <<VOTES>>, <<NAME, VOTES>>, <<VOTES, NAME>>}

\* model._increment(column, amount)
IncrementModel ==
    /\ calls < limit
    /\ \E column \in {VOTES, NAME} : \E amount \in Amounts : \E db \in Answers :
         Called("increment", <<column, amount>>,
                IncrementOrDecrement(type, Self, column, amount, "increment", db),
                unguarded)

\* model._decrement(column, amount)
DecrementModel ==
    /\ calls < limit
    /\ \E column \in {VOTES, NAME} : \E amount \in Amounts : \E db \in Answers :
         Called("decrement", <<column, amount>>,
                IncrementOrDecrement(type, Self, column, amount, "decrement", db),
                unguarded)

\* model.is_dirty(*attributes)
IsDirtyModel ==
    /\ calls < limit
    /\ \E args \in DirtyArgs :
         Called("is_dirty", args,
                Outcome(Self, <<>>, IF IsDirtyOf(Self, args) THEN "True" ELSE "False", "none"),
                unguarded)

InitCounter ==
    \E t \in CounterTypes :
        \/ Constructed(t, FALSE, NewModel(t, FALSE), "new", MaxCalls)
        \/ \E row \in CounterRows :
             Constructed(t, FALSE, NewFromBuilder(t, FALSE, row), "new_from_builder", MaxCalls)

NextCounter ==
    \/ SetAttr
    \/ IncrementModel
    \/ DecrementModel
    \/ IsDirtyModel
    \/ SaveModel

SpecCounter == InitCounter /\ [][NextCounter]_vars

---------------------------------------------------------------------------
(* The guard specification: fill and force_fill under every guard policy *)

FillGuarded ==
    /\ calls < limit
    /\ \E input \in GuardInputs :
         Called("fill", input, Fill(type, unguarded, Self, input), unguarded)

ForceFillGuarded ==
    /\ calls < limit
    /\ \E input \in GuardInputs :
         LET r == ForceFill(type, Self, input) IN
         Called("force_fill", input, r[1], r[2])

Unguard ==
    /\ calls < limit
    /\ Called("unguard", <<>>, Outcome(Self, <<>>, "None", "none"), TRUE)

Reguard ==
    /\ calls < limit
    /\ Called("reguard", <<>>, Outcome(Self, <<>>, "None", "none"), FALSE)

\* model.is_fillable(key)
IsFillableModel ==
    /\ calls < limit
    /\ \E k \in GuardKeys :
         Called("is_fillable", <<k>>,
                Outcome(Self, <<>>, IF IsFillable(type, unguarded, k) THEN "True" ELSE "False",
                        "none"),
                unguarded)

InitGuard ==
    \E t \in GuardTypes : Constructed(t, FALSE, NewModel(t, FALSE), "new", MaxCalls)

NextGuard ==
    \/ FillGuarded
    \/ ForceFillGuarded
    \/ Unguard
    \/ Reguard
    \/ IsFillableModel

SpecGuard == InitGuard /\ [][NextGuard]_vars

---------------------------------------------------------------------------
(* The serialization specification: types with a visible and a hidden      *)
(* list, an instance with plain, internal and date keys, and to_dict()     *)

VisibleTypes ==
    { [RecordType(ID, TRUE, FALSE, {}, {STAR}) EXCEPT !.visible = visible, !.hidden = hidden] :
        visible \in {{}, {NAME, PRIVATE}, {ADMIN}}, hidden \in {{}, {NAME}, {ADMIN, CREATED_AT}} }

VisibleKeys == {NAME, ADMIN, PRIVATE, CREATED_AT}

VisibleValues(k) ==
    IF k = NAME THEN { StrV(n) : n \in Names }
    ELSE IF k = CREATED_AT THEN { ArrowV(n) : n \in Times }
    ELSE IF k = ADMIN THEN { BoolV(TRUE) }
    ELSE { StrV(1) }

\* the row a select returns for such a type
VisibleRows ==
    { [k \in VisibleKeys \cup {ID} |->
         IF k = ID THEN IntV(1)
         ELSE IF k = CREATED_AT THEN DatetimeV(1)
         ELSE IF k = ADMIN THEN BoolV(FALSE)
         ELSE StrV(1)] }

\* model.key = value
SetVisible ==
    /\ calls < limit
    /\ \E k \in VisibleKeys : \E v \in VisibleValues(k) :
         Called("set", <<<<k, v>>>>,
                Outcome([Self EXCEPT !.attributes = SetAttribute(type, @, k, v)],
                        <<>>, "None", "none"),
                unguarded)

\* del model.key
DelVisible ==
    /\ calls < limit
    /\ \E k \in VisibleKeys :
         Called("delattr", <<k>>, DelAttr(Self, k), unguarded)

InitVisible ==
    \E t \in VisibleTypes :
        \/ Constructed(t, FALSE, NewModel(t, FALSE), "new", MaxCalls)
        \/ \E row \in VisibleRows :
             Constructed(t, FALSE, NewFromBuilder(t, FALSE, row), "new_from_builder", MaxCalls)

NextVisible ==
    \/ SetVisible
    \/ DelVisible
    \/ ToDictCast

SpecVisible == InitVisible /\ [][NextVisible]_vars

---------------------------------------------------------------------------
(* The replication specification: replicate() on a new or hydrated         *)
(* instance under every guard policy; peer is the instance it returned     *)

ReplicateTypes ==
    { RecordType(ID, TRUE, TRUE, fillable, guarded) :
        fillable \in {{}, {NAME}}, guarded \in {{STAR}, {ADMIN}, {}} }

\* other = model.replicate(except_), with except_ left out or a list of keys
ReplicateModel ==
    /\ calls < limit
    /\ \E except \in {<<"omitted">>} \cup { <<"given", keys>> : keys \in {{}, {ID}, {NAME}} } :
         LET out == Replicate(type, unguarded, Self, except) IN
         Stepped("replicate", except, [out EXCEPT !.m = Self], unguarded, pc,
                 IF out.result = "instance" THEN out.m ELSE peer)

InitReplicate ==
    \E t \in ReplicateTypes :
        \/ Constructed(t, FALSE, NewModel(t, FALSE), "new", MaxCalls)
        \/ \E row \in Rows :
             Constructed(t, FALSE, NewFromBuilder(t, FALSE, row), "new_from_builder", MaxCalls)

NextReplicate ==
    \/ SetAttr
    \/ ReplicateModel

SpecReplicate == InitReplicate /\ [][NextReplicate]_vars

\* keyword dictionaries of one or two of the keys name, admin and _token
SharedInputs ==
    { input \in GuardInputs :
        input # <<>> /\ InputKeys(input) \subseteq {NAME, ADMIN, PRIVATE} }

---------------------------------------------------------------------------
(* The forced-assignment specification: force_create and force_fill that   *)
(* can fail (storage raises, a date is given that is none), followed by a  *)
(* protected fill or reguard.  The types have no timestamps: save() reads  *)
(* no clock.                                                               *)

\* what force_create and force_fill are given: one plain key, or a
\* created_at that is no date
ForceInputs ==
    { input \in SharedInputs : Len(input) = 1 }
    \cup { <<<<CREATED_AT, ObjectV>>>>, <<<<ADMIN, BoolV(TRUE)>>, <<CREATED_AT, ObjectV>>>> }

\* other = Model.force_create(**attributes)
ForceCreateModel ==
    /\ calls < limit
    /\ \E input \in ForceInputs : \E db \in Storage :
         \E r \in {ForceCreate(type, input, None, db)} :
             Stepped("force_create", input, [r[1] EXCEPT !.m = Self], r[2], pc,
                     IF r[1].error = "none" THEN r[1].m ELSE peer)

\* model.force_fill(**attributes)
ForceFillModel ==
    /\ calls < limit
    /\ \E input \in ForceInputs :
         LET r == ForceFill(type, Self, input) IN
         Called("force_fill", input, r[1], r[2])

\* model.fill(**attributes)
FillAfterForce ==
    /\ calls < limit
    /\ \E input \in SharedInputs :
         Called("fill", input, Fill(type, unguarded, Self, input), unguarded)

NextForce ==
    \/ ForceCreateModel
    \/ ForceFillModel
    \/ FillAfterForce
    \/ Reguard

SpecForce == InitGuard /\ [][NextForce]_vars

---------------------------------------------------------------------------
(* The primary-key specification: a loaded row whose primary key and name  *)
(* are rewritten and saved several times over, storage executing or        *)
(* failing each update.  The type has no timestamps: save() reads no clock.*)

\* model.save()
SaveKeyed ==
    /\ calls < limit
    /\ \E db \in Answers :
         Called("save", <<>>, Save(type, Self, None, db), unguarded)

InitKey ==
    \E row \in Rows :
        LET t == RecordType(ID, FALSE, FALSE, {NAME}, {STAR}) IN
        Constructed(t, FALSE, NewFromBuilder(t, FALSE, row), "new_from_builder", MaxKeyCalls)

NextKey ==
    \/ SetAttr
    \/ SaveKeyed

SpecKey == InitKey /\ [][NextKey]_vars

---------------------------------------------------------------------------
(* The shared-flag specification: two callers on one type.  The first is   *)
(* inside force_fill() on its instance, one statement at a time (unguard,  *)
(* fill, reguard); the second calls fill() on an instance of its own.  No  *)
(* lock orders the statements of the two.                                  *)

\* force_fill, first statement: self.unguard()
ForceFillUnguard ==
    /\ calls < limit
    /\ pc = "out"
    /\ Stepped("force_fill.unguard", <<>>, Outcome(Self, <<>>, "None", "none"),
               TRUE, "unguarded", peer)

\* force_fill, second statement: self.fill(**attributes), under the flag as
\* it is now; an error leaves force_fill without reaching reguard()
ForceFillFill ==
    /\ calls < limit
    /\ pc = "unguarded"
    /\ \E input \in SharedInputs :
         LET out == Fill(type, unguarded, Self, input) IN
         Stepped("force_fill.fill", input, out, unguarded,
                 IF out.error = "none" THEN "filled" ELSE "out", peer)

\* force_fill, third statement: self.reguard()
ForceFillReguard ==
    /\ calls < limit
    /\ pc = "filled"
    /\ Stepped("force_fill.reguard", <<>>, Outcome(Self, <<>>, "self", "none"),
               FALSE, "out", peer)

\* the second caller: other.fill(**attributes)
PeerFill ==
    /\ calls < limit
    /\ \E input \in SharedInputs :
         LET out == Fill(type, unguarded, peer, input) IN
         Stepped("peer.fill", input, [out EXCEPT !.m = Self], unguarded, pc, out.m)

InitShared ==
    \E t \in GuardTypes : Constructed(t, FALSE, NewModel(t, FALSE), "new", MaxSharedSteps)

NextShared ==
    \/ ForceFillUnguard
    \/ ForceFillFill
    \/ ForceFillReguard
    \/ PeerFill

SpecShared == InitShared /\ [][NextShared]_vars

---------------------------------------------------------------------------
(* Claims.  An action formula reads the instance before the call in the    *)
(* unprimed variables and the call and the instance after it in the primed *)
(* ones.                                                                   *)

After == Instance(exists', attributes', original')

\* C1: save() on a persisted instance with dirty attributes, whose original
\* holds the primary key, issues one update; its predicate is the key value
\* in original, not the current one, and its columns are dirty() as computed
\* after stamping.
C1_UpdateKeyedOnOriginal ==
    [][ ( /\ last'.op = "save"
          /\ exists
          /\ DOMAIN GetDirty(Self) # {}
          /\ GetKeyName(type) \in DOMAIN original )
        => ( /\ Len(last'.queries) = 1
             /\ last'.queries[1].op = "update"
             /\ last'.queries[1].where = <<GetKeyName(type), original[GetKeyName(type)]>>
             /\ last'.queries[1].cols = GetDirty(Instance(exists, attributes', original)) )
      ]_vars

\* a save has issued an update that carries a new primary-key value and is
\* keyed on another one
C1_Witness ==
    /\ last.op = "save"
    /\ last.error = "none"
    /\ Len(last.queries) = 1
    /\ last.queries[1].op = "update"
    /\ ID \in DOMAIN last.queries[1].cols
    /\ last.queries[1].where[1] = ID
    /\ ~PyEq(last.queries[1].where[2], attributes[ID])

\* C2: save() on a new instance of an auto-incrementing type issues exactly
\* one insert_get_id, carrying every current attribute (and the stamped
\* timestamps); when it succeeds the returned id is what get(primary key)
\* returns, exists is true and dirty() is empty.
C2_InsertGetId ==
    [][ ( /\ last'.op = "save"
          /\ ~exists
          /\ type.incrementing )
        => ( /\ Len(last'.queries) = 1
             /\ last'.queries[1].op = "insert_get_id"
             /\ DOMAIN attributes \subseteq DOMAIN last'.queries[1].cols
             /\ DOMAIN last'.queries[1].cols \subseteq DOMAIN attributes \cup GetDates
             /\ \A k \in DOMAIN attributes \ GetDates : last'.queries[1].cols[k] = attributes[k]
             /\ last'.error = "none" =>
                  /\ last'.result = "True"
                  /\ GetKeyName(type) \in DOMAIN attributes'
                  /\ GetAttributeValue(type, attributes', GetKeyName(type))
                       = last'.queries[1].returned
                  /\ exists'
                  /\ DOMAIN GetDirty(After) = {} )
      ]_vars

\* a save has inserted a new instance that held a name and no id, and the id
\* storage generated is now its key
C2_Witness ==
    /\ last.op = "save"
    /\ last.error = "none"
    /\ Len(last.queries) = 1
    /\ last.queries[1].op = "insert_get_id"
    /\ NAME \in DOMAIN last.queries[1].cols
    /\ ID \notin DOMAIN last.queries[1].cols
    /\ exists
    /\ GetKeyName(type) = ID
    /\ ID \in DOMAIN attributes
    /\ attributes[ID] = last.queries[1].returned

\* C3 as stated: exists goes from false to true at most once and from true to
\* false at most once.
C3_AtMostOnce ==
    [][ /\ (~exists /\ exists') => ~inserted
        /\ (exists /\ ~exists') => ~deleted ]_vars

\* C3 amended: exists goes from false to true only in a call whose insert
\* succeeded, and from true to false only in a delete() whose delete query
\* succeeded; it changes in no other call.
C3_OnlyInsertAndDelete ==
    [][ /\ (~exists /\ exists') =>
              /\ last'.op \in {"save", "touch"}
              /\ last'.error = "none"
              /\ Len(last'.queries) = 1
              /\ last'.queries[1].op \in {"insert", "insert_get_id"}
              /\ last'.queries[1].ok
        /\ (exists /\ ~exists') =>
              /\ last'.op = "delete"
              /\ last'.error = "none"
              /\ Len(last'.queries) = 1
              /\ last'.queries[1].op = "delete"
              /\ last'.queries[1].ok ]_vars

\* a deleted instance has been saved again: exists is true for the second time
C3_Witness ==
    /\ deleted
    /\ inserted
    /\ exists
    /\ last.op = "save"
    /\ Len(last.queries) = 1
    /\ last.queries[1].op \in {"insert", "insert_get_id"}

\* C4: a save() right after a successful save() issues no query and returns
\* true.
C4_SecondSaveWritesNothing ==
    [][ ( /\ last.op = "save"
          /\ last.error = "none"
          /\ last'.op = "save" )
        => ( /\ exists
             /\ last'.queries = <<>>
             /\ last'.result = "True"
             /\ last'.error = "none" )
      ]_vars

\* two calls were made on a new instance of a type without timestamps (whose
\* touch() does nothing): the first inserted it, so it was a save(), and the
\* second was a save() that issued nothing
C4_Witness ==
    /\ ~type.timestamps
    /\ calls = 2
    /\ inserted
    /\ last.op = "save"
    /\ last.queries = <<>>
    /\ last.result = "True"

\* C5: dirty() is empty right after new_from_builder, right after sync() and
\* right after a successful save().
C5_CleanAfterSync ==
    ( \/ last.op \in {"new_from_builder", "sync"}
      \/ (last.op = "save" /\ last.error = "none") )
    => DOMAIN GetDirty(Self) = {}

\* a save has written a dirty column and left nothing dirty
C5_Witness ==
    /\ last.op = "save"
    /\ last.error = "none"
    /\ Len(last.queries) = 1
    /\ last.queries[1].op = "update"
    /\ DOMAIN GetDirty(Self) = {}

\* C6: fill() raises MassAssignmentError exactly when the input holds a key
\* that is not fillable, the type is totally guarded and the flag unguarded is
\* off; force_fill() never raises it.
C6_RaisesIffTotallyGuarded ==
    [][ /\ last'.op = "fill" =>
              ( last'.error = "MassAssignmentError"
                <=> ( /\ \E k \in InputKeys(last'.arg) : ~IsFillable(type, unguarded, k)
                      /\ type.fillable = {}
                      /\ type.guarded = {STAR}
                      /\ ~unguarded ) )
        /\ last'.op = "fill" => last'.error \in {"none", "MassAssignmentError"}
        /\ last'.op = "force_fill" => last'.error = "none" ]_vars

\* a fill has raised MassAssignmentError
C6_Witness ==
    /\ last.op = "fill"
    /\ last.error = "MassAssignmentError"
    /\ Len(last.arg) = 2

\* where fill stores an input key, and what it stores there
Stored(t, k, v) == SetAttribute(t, EmptyMap, RemoveTableFromKey(k), v)[RemoveTableFromKey(k)]

\* the attributes after a fill that assigns the items of input whose key is
\* in keys, in order
RECURSIVE Assigned(_, _, _, _, _)
Assigned(t, attrs, input, keys, i) ==
    IF i > Len(input) THEN attrs
    ELSE Assigned(t,
                  IF input[i][1] \in keys
                  THEN Put(attrs, RemoveTableFromKey(input[i][1]), Stored(t, input[i][1], input[i][2]))
                  ELSE attrs,
                  input, keys, i + 1)

\* C7 as stated, a table-qualified key being fillable when the column it
\* names is: fill on a type that is neither totally guarded nor unguarded
\* never raises, assigns the input keys that are fillable and nothing else.
C7_SetsFillableKeys ==
    [][ ( /\ last'.op = "fill"
          /\ ~(type.fillable = {} /\ type.guarded = {STAR})
          /\ ~unguarded )
        => ( /\ last'.error = "none"
             /\ attributes' = Assigned(type, attributes, last'.arg,
                                       { k \in InputKeys(last'.arg) :
                                           IsFillable(type, FALSE, RemoveTableFromKey(k)) }, 1)
             /\ UNCHANGED <<exists, original>> )
      ]_vars

\* C7 amended: the same, for an input none of whose keys is table-qualified.
C7_SetsFillablePlainKeys ==
    [][ ( /\ last'.op = "fill"
          /\ ~(type.fillable = {} /\ type.guarded = {STAR})
          /\ ~unguarded
          /\ \A k \in InputKeys(last'.arg) : \A i \in 1..Len(k) : k[i] # "." )
        => ( /\ last'.error = "none"
             /\ attributes' = Assigned(type, attributes, last'.arg,
                                       { k \in InputKeys(last'.arg) : IsFillable(type, FALSE, k) }, 1)
             /\ \A k \in InputKeys(last'.arg) :
                  (IsGuarded(type, k) /\ k \notin type.fillable) =>
                     /\ k \in DOMAIN attributes' <=> k \in DOMAIN attributes
                     /\ k \in DOMAIN attributes => attributes'[k] = attributes[k]
             /\ UNCHANGED <<exists, original>> )
      ]_vars

\* the scenario of the specification: fillable = [name], guarded = ['*'], and
\* a fill of name and admin has set name and left admin absent
C7_Witness ==
    /\ type.fillable = {NAME}
    /\ type.guarded = {STAR}
    /\ ~unguarded
    /\ calls = 1
    /\ last.op = "fill"
    /\ last.error = "none"
    /\ InputKeys(last.arg) = {NAME, ADMIN}
    /\ DOMAIN attributes = {NAME}

\* C8: when the insert of save() on a new instance fails, the storage error
\* reaches the caller, that query was the only one, exists stays false and
\* original is as before.
C8_FailedInsert ==
    [][ ( /\ last'.op = "save"
          /\ ~exists
          /\ \E i \in 1..Len(last'.queries) : ~last'.queries[i].ok )
        => ( /\ last'.error = "StorageError"
             /\ last'.result = "raised"
             /\ Len(last'.queries) = 1
             /\ ~exists'
             /\ original' = original )
      ]_vars

\* a save of a new instance has failed in storage, with an attribute unsynced
C8_Witness ==
    /\ last.op = "save"
    /\ last.error = "StorageError"
    /\ Len(last.queries) = 1
    /\ last.queries[1].op \in {"insert", "insert_get_id"}
    /\ ~exists
    /\ NAME \in DOMAIN attributes
    /\ NAME \notin DOMAIN original

\* C9: delete() on a type with no primary key raises, issues no query and
\* leaves exists, attributes and original as they were, on a new and on a
\* persisted instance.
C9_DeleteWithoutKey ==
    [][ ( /\ last'.op = "delete"
          /\ GetKeyName(type) = NONE_KEY )
        => ( /\ last'.error = "Exception"
             /\ last'.queries = <<>>
             /\ UNCHANGED <<exists, attributes, original>> )
      ]_vars

\* delete() has raised on a persisted instance
C9_Witness ==
    /\ last.op = "delete"
    /\ last.error = "Exception"
    /\ exists

\* C10: a timestamp column that is dirty when save() starts (updated_at, or
\* created_at on a new instance) keeps the caller's value: it is the value
\* every query of the save writes and the value the attribute holds after.
C10_CallerTimestampKept ==
    [][ /\ ( /\ last'.op = "save"
             /\ IsDirty(Self, UPDATED_AT) )
           => ( /\ attributes'[UPDATED_AT] = attributes[UPDATED_AT]
                /\ \A i \in 1..Len(last'.queries) :
                     /\ UPDATED_AT \in DOMAIN last'.queries[i].cols
                     /\ last'.queries[i].cols[UPDATED_AT] = attributes[UPDATED_AT] )
        /\ ( /\ last'.op = "save"
             /\ ~exists
             /\ IsDirty(Self, CREATED_AT) )
           => ( /\ attributes'[CREATED_AT] = attributes[CREATED_AT]
                /\ \A i \in 1..Len(last'.queries) :
                     /\ CREATED_AT \in DOMAIN last'.queries[i].cols
                     /\ last'.queries[i].cols[CREATED_AT] = attributes[CREATED_AT] )
      ]_vars

\* the second call on a new instance was a save() that inserted it with two
\* different timestamps: the first call set one of them, the save the other
C10_Witness ==
    /\ calls = 2
    /\ last.op = "save"
    /\ last.error = "none"
    /\ Len(last.queries) = 1
    /\ last.queries[1].op \in {"insert", "insert_get_id"}
    /\ CREATED_AT \in DOMAIN last.queries[1].cols
    /\ UPDATED_AT \in DOMAIN last.queries[1].cols
    /\ last.queries[1].cols[CREATED_AT] # last.queries[1].cols[UPDATED_AT]
    /\ attributes[UPDATED_AT] = last.queries[1].cols[UPDATED_AT]
    /\ attributes[CREATED_AT] = last.queries[1].cols[CREATED_AT]

\* the attributes once the stamping step of a save at instant now has run on a
\* persisted instance
Stamped(now) ==
    IF IsDirty(Self, UPDATED_AT) THEN attributes
    ELSE Put(attributes, UPDATED_AT, DatetimeV(now[2]))

\* C11 as stated: every save() of a persisted instance of a type with
\* timestamps runs the stamping step, whether or not an attribute is dirty,
\* and the write-set is dirty() as computed after it.
C11_StampsOnEverySave ==
    [][ ( /\ last'.op = "save"
          /\ exists
          /\ type.timestamps )
        => ( /\ attributes' = Stamped(last'.clock[1])
             /\ \A i \in 1..Len(last'.queries) :
                  last'.queries[i].cols = GetDirty(Instance(exists, attributes', original)) )
      ]_vars

\* C11 amended: save() of a persisted instance of a type with timestamps runs
\* the stamping step exactly when some attribute is dirty at the call, and the
\* write-set is dirty() as computed after it; when nothing is dirty it stamps
\* nothing, issues no query and returns true.
C11_StampsOnlyWhenDirty ==
    [][ ( /\ last'.op = "save"
          /\ exists
          /\ type.timestamps )
        => ( /\ DOMAIN GetDirty(Self) = {} =>
                  /\ attributes' = attributes
                  /\ last'.queries = <<>>
                  /\ last'.result = "True"
             /\ DOMAIN GetDirty(Self) # {} =>
                  /\ attributes' = Stamped(last'.clock[1])
                  /\ \A i \in 1..Len(last'.queries) :
                       last'.queries[i].cols = GetDirty(Instance(exists, attributes', original)) )
      ]_vars

\* a save of a persisted instance with a dirty name has stamped updated_at and
\* written both
C11_Witness ==
    /\ type.timestamps
    /\ last.op = "save"
    /\ last.error = "none"
    /\ Len(last.queries) = 1
    /\ last.queries[1].op = "update"
    /\ DOMAIN last.queries[1].cols = {NAME, UPDATED_AT}
    /\ last.queries[1].cols[UPDATED_AT] = DatetimeV(last.clock[1][2])
    /\ attributes[UPDATED_AT] = DatetimeV(last.clock[1][2])

\* C12 as stated: in every state every key of original is a key of
\* attributes.
C12_OriginalKeysInAttributes == DOMAIN original \subseteq DOMAIN attributes

\* C12 amended: every key of original is a key of attributes after
\* construction, and every set, fill, raw_replace with sync, sync, sync_one,
\* save and delete keeps it so; an attribute delete and a raw_replace without
\* sync need not.
C12_KeptByAllButDelete ==
    /\ (calls = 0 => DOMAIN original \subseteq DOMAIN attributes)
    /\ [][ ( /\ DOMAIN original \subseteq DOMAIN attributes
             /\ last'.op # "delattr"
             /\ ~(last'.op = "raw_replace" /\ ~last'.arg[2]) )
           => DOMAIN original' \subseteq DOMAIN attributes' ]_vars

\* sync_one has copied one key into an empty original
C12_Witness ==
    /\ calls = 2
    /\ last.op = "sync_one"
    /\ last.error = "none"
    /\ last.arg = <<NAME>>
    /\ DOMAIN original = {NAME}
    /\ DOMAIN original \subseteq DOMAIN attributes

\* a value json can represent as it is: a tuple is written as an array and
\* read back as a list
JsonRepresentable(v) == v[1] # "tuple"

\* C13: after set(key, v) on a key whose cast is list, dict, json or object,
\* with v JSON-representable, get(key) returns v and to_dict()[key] is v.
C13_RoundTrip ==
    [][ ( /\ last.op = "set"
          /\ JsonRepresentable(last.arg[1][2])
          /\ IsJsonCastable(type, last.arg[1][1]) )
        => ( /\ last'.op = "get" => last'.value = last.arg[1][2]
             /\ last'.op = "to_dict" =>
                  /\ last.arg[1][1] \in DOMAIN last'.value[2]
                  /\ last'.value[2][last.arg[1][1]] = last.arg[1][2] )
      ]_vars

\* C14: delete() on a type with a primary key leaves attributes and original
\* as they were; on an instance that exists and holds its key it issues
\* exactly one delete query, keyed on the current value of the key, and once
\* storage has executed it exists is false and the result true; on an
\* instance that does not exist it issues nothing, changes nothing and
\* returns None.
C14_DeleteFrame ==
    [][ ( /\ last'.op = "delete"
          /\ GetKeyName(type) # NONE_KEY )
        => ( /\ attributes' = attributes
             /\ original' = original
             /\ (exists /\ GetKeyName(type) \in DOMAIN attributes) =>
                  /\ Len(last'.queries) = 1
                  /\ last'.queries[1].op = "delete"
                  /\ last'.queries[1].where = <<GetKeyName(type), attributes[GetKeyName(type)]>>
                  /\ last'.queries[1].ok => (~exists' /\ last'.result = "True")
             /\ ~exists =>
                  /\ last'.queries = <<>>
                  /\ ~exists'
                  /\ last'.error = "none"
                  /\ last'.result = "None" )
      ]_vars

\* a delete has removed the row of an instance whose key was changed in
\* memory: the query is keyed on the new value, and both maps are kept
C14_Witness ==
    /\ last.op = "delete"
    /\ last.error = "none"
    /\ ~exists
    /\ deleted
    /\ Len(last.queries) = 1
    /\ ID \in DOMAIN original
    /\ last.queries[1].where = <<ID, attributes[ID]>>
    /\ attributes[ID] # original[ID]

\* C15: update(attrs) on a new instance issues one update with no predicate,
\* carrying attrs, and leaves exists, attributes and original as they were;
\* on a persisted instance it leaves the state, issues the queries and returns
\* or raises what fill(attrs) followed by save() does, storage answering
\* the save as it answered the update.
C15_UpdateIsFillThenSave ==
    [][ last'.op = "update" =>
          /\ ~exists =>
               /\ After = Self
               /\ Len(last'.queries) = 1
               /\ last'.queries[1].op = "update"
               /\ last'.queries[1].where = NoWhere
               /\ DOMAIN last'.queries[1].cols = InputKeys(last'.arg)
               /\ \A i \in 1..Len(last'.arg) :
                    last'.queries[1].cols[last'.arg[i][1]] = last'.arg[i][2]
          /\ exists =>
               LET db == [ok |-> \A i \in 1..Len(last'.queries) : last'.queries[i].ok,
                          id |-> 0]
                   filled == Fill(type, unguarded, Self, last'.arg)
                   both == IF filled.error # "none" THEN filled
                           ELSE Save(type, filled.m, last'.clock[1], db)
               IN  both = [m |-> After, queries |-> last'.queries, result |-> last'.result,
                           error |-> last'.error, value |-> last'.value] ]_vars

\* an update of a persisted instance has filled the name and written it, and
\* left nothing dirty
C15_Witness ==
    /\ last.op = "update"
    /\ last.error = "none"
    /\ exists
    /\ ~inserted
    /\ Len(last.queries) = 1
    /\ last.queries[1].op = "update"
    /\ last.queries[1].where[1] = ID
    /\ NAME \in DOMAIN last.queries[1].cols
    /\ last.arg[1][1] = NAME
    /\ attributes[NAME] = last.arg[1][2]
    /\ original = attributes

\* C16: is_fillable(key) is true exactly when the flag unguarded is on, or
\* the key is in fillable, or the key is not guarded (neither in guarded nor
\* guarded = ['*']) while fillable is empty and the key does not start with
\* '_'.
C16_FourStepRule ==
    last.op = "is_fillable" =>
        ( last.result = "True"
          <=> ( \/ unguarded
                \/ last.arg[1] \in type.fillable
                \/ ( /\ last.arg[1] \notin type.guarded
                     /\ type.guarded # {STAR}
                     /\ type.fillable = {}
                     /\ last.arg[1][1] # "_" ) ) )

\* is_fillable has answered true for a key that is fillable and guarded
C16_Witness ==
    /\ last.op = "is_fillable"
    /\ last.result = "True"
    /\ ~unguarded
    /\ last.arg[1] \in type.fillable
    /\ type.guarded = {STAR}

\* the keys of attributes that original does not hold, or holds with a value
\* that differs
DirtyKeys ==
    { k \in DOMAIN attributes :
        k \notin DOMAIN original \/ ~PyEq(attributes[k], original[k]) }

\* C17: is_dirty(k1, ..., kn) is true exactly when one of the keys is a key of
\* dirty(), is_dirty() exactly when dirty() is not empty, and dirty() is the
\* attributes under the keys that are absent from original or differ from it.
C17_IsDirtyIffInDirty ==
    /\ GetDirty(Self) = Restrict(attributes, DirtyKeys)
    /\ last.op = "is_dirty" =>
         ( last.result = "True"
           <=> IF Len(last.arg) = 0 THEN DirtyKeys # {}
               ELSE \E i \in 1..Len(last.arg) : last.arg[i] \in DirtyKeys )

\* is_dirty of two keys has answered true with only the second one dirty, a
\* key that original does not hold
C17_Witness ==
    /\ last.op = "is_dirty"
    /\ last.result = "True"
    /\ Len(last.arg) = 2
    /\ last.arg[1] \notin DirtyKeys
    /\ last.arg[2] \in DirtyKeys
    /\ last.arg[2] \notin DOMAIN original

\* C18: an increment or decrement of a numeric column of a persisted instance
\* changes the column in memory by the amount and copies that column alone
\* into original: the column is not dirty after, and every other key has the
\* value, the original value and the dirty status it had; on a new instance
\* nothing of the instance changes.
C18_SyncsOneColumn ==
    [][ last'.op \in {"increment", "decrement"} =>
          LET column == last'.arg[1]
              delta == IF last'.op = "increment" THEN last'.arg[2] ELSE 0 - last'.arg[2]
          IN  /\ ~exists => After = Self
              /\ ( /\ exists
                   /\ column \in DOMAIN attributes
                   /\ attributes[column][1] = "int" )
                 => ( /\ exists'
                      /\ DOMAIN attributes' = DOMAIN attributes
                      /\ DOMAIN original' = (DOMAIN original) \cup {column}
                      /\ attributes'[column] = IntV(attributes[column][2] + delta)
                      /\ original'[column] = attributes'[column]
                      /\ ~IsDirty(After, column)
                      /\ \A k \in (DOMAIN attributes) \ {column} :
                           /\ attributes'[k] = attributes[k]
                           /\ IsDirty(After, k) <=> IsDirty(Self, k)
                      /\ \A k \in (DOMAIN original) \ {column} : original'[k] = original[k] )
      ]_vars

\* the second call has incremented votes on a persisted instance whose name
\* was dirty: votes is clean at its new value and name is still dirty
C18_Witness ==
    /\ calls = 2
    /\ last.op = "increment"
    /\ last.error = "none"
    /\ exists
    /\ last.arg[1] = VOTES
    /\ attributes[VOTES] = IntV(last.arg[2])
    /\ original[VOTES] = attributes[VOTES]
    /\ IsDirty(Self, NAME)

\* the column holds after the call what it held before, or is still absent
Kept(k) ==
    /\ k \in DOMAIN attributes' <=> k \in DOMAIN attributes
    /\ k \in DOMAIN attributes => attributes'[k] = attributes[k]

\* C19: save() of an instance that does not exist, of a type with
\* timestamps, with neither timestamp dirty, stores the one clock reading of
\* the call in created_at and in updated_at, and writes that in its query;
\* save() of an instance that exists leaves created_at alone; save() on a
\* type without timestamps leaves both alone.
C19_OneTimestampPerSave ==
    [][ last'.op = "save" =>
          /\ ( /\ ~exists
               /\ type.timestamps
               /\ ~IsDirty(Self, UPDATED_AT)
               /\ ~IsDirty(Self, CREATED_AT) )
             => ( /\ attributes'[CREATED_AT] = DatetimeV(last'.clock[1][2])
                  /\ attributes'[UPDATED_AT] = attributes'[CREATED_AT]
                  /\ \A i \in 1..Len(last'.queries) :
                       /\ last'.queries[i].cols[CREATED_AT] = attributes'[CREATED_AT]
                       /\ last'.queries[i].cols[UPDATED_AT] = attributes'[CREATED_AT] )
          /\ exists => Kept(CREATED_AT)
          /\ ~type.timestamps => (Kept(CREATED_AT) /\ Kept(UPDATED_AT)) ]_vars

\* the first call on a new instance was a save() that inserted it with the
\* one reading of the clock in both timestamps
C19_Witness ==
    /\ calls = 1
    /\ last.op = "save"
    /\ last.error = "none"
    /\ inserted
    /\ Len(last.queries) = 1
    /\ attributes[CREATED_AT] = DatetimeV(last.clock[1][2])
    /\ attributes[UPDATED_AT] = attributes[CREATED_AT]
    /\ last.queries[1].cols[CREATED_AT] = last.queries[1].cols[UPDATED_AT]

C21_PeerFillUnprotected ==
    [][ ( /\ last'.op = "peer.fill"
          /\ pc \in {"unguarded", "filled"} )
        => ( /\ unguarded
             /\ last'.error = "none"
             /\ \A i \in 1..Len(last'.arg) :
                  /\ last'.arg[i][1] \in DOMAIN peer'.attributes
                  /\ peer'.attributes[last'.arg[i][1]]
                       = Stored(type, last'.arg[i][1], last'.arg[i][2]) )
      ]_vars

\* on a type with fillable = [name] and guarded = ['*'], the second caller's
\* fill has stored admin while the first caller was inside force_fill
C21_Witness ==
    /\ last.op = "peer.fill"
    /\ pc \in {"unguarded", "filled"}
    /\ type.fillable = {NAME}
    /\ type.guarded = {STAR}
    /\ ADMIN \in InputKeys(last.arg)
    /\ ADMIN \in DOMAIN peer.attributes
    /\ ADMIN \notin DOMAIN attributes

\* C22: the keys of to_dict() are, when the visible list is not empty, the
\* attribute keys in it (whether or not they are hidden or start with '_');
\* otherwise the attribute keys that are neither hidden nor start with '_'.
\* No key of the dictionary is absent from attributes.
C22_DictKeys ==
    (last.op = "to_dict") =>
        /\ last.error = "none"
        /\ last.value[1] = "dict"
        /\ DOMAIN last.value[2] \subseteq DOMAIN attributes
        /\ type.visible # {} =>
             DOMAIN last.value[2] = DOMAIN attributes \cap type.visible
        /\ type.visible = {} =>
             DOMAIN last.value[2] =
                 { k \in DOMAIN attributes : k \notin type.hidden /\ ~StartsWithUnderscore(k) }

\* visible = [name, _token] and hidden = [name]: the dictionary of a row has
\* name and _token, and neither id nor admin
C22_Witness ==
    /\ last.op = "to_dict"
    /\ type.visible = {NAME, PRIVATE}
    /\ type.hidden = {NAME}
    /\ DOMAIN attributes = VisibleKeys \cup {ID}
    /\ DOMAIN last.value[2] = {NAME, PRIVATE}

\* C23: force_fill() leaves the flag unguarded of the type as it found it,
\* whether it found it on or off.
C23_FlagRestored ==
    [][ (last'.op = "force_fill" /\ last'.error = "none") => unguarded' = unguarded ]_vars

\* an instance that was never saved and holds attrs: constructed, then
\* assigned
NeverSaved(attrs) == [NewModel(type, unguarded) EXCEPT !.attributes = attrs]

\* what the call that has just been made left behind
Observed ==
    [m |-> After, queries |-> last'.queries, result |-> last'.result,
     error |-> last'.error, value |-> last'.value]

\* the instance was persisted holding its attributes and has just been deleted
JustDeleted ==
    /\ last.op = "delete"
    /\ last.result = "True"
    /\ ~exists
    /\ original = attributes

\* C24 as stated: the save() of an instance persisted holding A and then
\* deleted issues the query that the save() of a never-saved instance holding
\* A does (same clock, same storage) and, when it succeeds, leaves the same
\* state.
C24_SameAsNeverSaved ==
    [][ (last'.op = "save" /\ JustDeleted)
        => \A db \in Storage :
             (Save(type, Self, last'.clock[1], db) = Observed)
             => LET fresh == Save(type, NeverSaved(attributes), last'.clock[1], db)
                IN  /\ fresh.queries = last'.queries
                    /\ last'.error = "none" => fresh.m = After
      ]_vars

\* C24 amended: the save() of the deleted instance is an insert of all its
\* attributes, and does what the save() of a never-saved instance does that
\* holds A without its timestamp columns when the type uses timestamps (both
\* columns are stamped with the time of the save), and A itself when it does
\* not: the same query, the same error, the same exists and attributes, and
\* when the insert succeeds the same original.
C24_SameAsNeverSavedUnstamped ==
    [][ (last'.op = "save" /\ JustDeleted)
        => /\ Len(last'.queries) = 1
           /\ last'.queries[1].op \in {"insert", "insert_get_id"}
           /\ DOMAIN last'.queries[1].cols = DOMAIN attributes \cup (IF type.timestamps THEN GetDates ELSE {})
           /\ type.timestamps =>
                \A k \in GetDates : last'.queries[1].cols[k] = FromDatetime(last'.clock[1])
           /\ \A db \in Storage :
                (Save(type, Self, last'.clock[1], db) = Observed)
                => LET held == IF type.timestamps
                               THEN Restrict(attributes, DOMAIN attributes \ GetDates)
                               ELSE attributes
                       fresh == Save(type, NeverSaved(held), last'.clock[1], db)
                   IN  /\ fresh.queries = last'.queries
                       /\ fresh.error = last'.error
                       /\ fresh.m.exists = exists'
                       /\ fresh.m.attributes = attributes'
                       /\ last'.error = "none" => fresh.m.original = original'
      ]_vars

\* a row stamped at instant 1 was loaded, deleted and saved again at instant
\* 2: the insert carried the instant 2 in both timestamp columns
C24_Witness ==
    /\ last.op = "save"
    /\ last.result = "True"
    /\ deleted
    /\ inserted
    /\ type.timestamps
    /\ last.clock = <<ArrowV(2)>>
    /\ last.queries[1].cols[CREATED_AT] = DatetimeV(2)
    /\ attributes[UPDATED_AT] = DatetimeV(2)
    /\ attributes[NAME] = StrV(1)

\* the keys replicate is to leave out: those given, or by default the primary
\* key and the two timestamp columns
Excepted(except) ==
    IF except[1] = "given" THEN except[2] ELSE {GetKeyName(type), CREATED_AT, UPDATED_AT}

\* C25: replicate(except_) returns a new instance with exists false whose
\* attributes are those of the source without the keys of except_, whether
\* except_ is left out or given; the source is unchanged.
C25_Replicate ==
    [][ last'.op = "replicate"
        => ( /\ last'.result = "instance"
             /\ ~peer'.exists
             /\ peer'.attributes
                   = Restrict(attributes, DOMAIN attributes \ Excepted(last'.arg))
             /\ UNCHANGED <<exists, attributes, original>> )
      ]_vars

\* C26: when the save inside force_create() or the fill inside force_fill()
\* raises, the call ends before its reguard() and leaves the flag unguarded
\* on; a fill() made while the flag is on raises no MassAssignmentError,
\* stores every key of its input and leaves the flag on, so the type stays
\* unprotected until reguard() is called.
C26_FlagLeftOn ==
    [][ /\ (last'.op \in {"force_create", "force_fill"} /\ last'.error # "none")
             => unguarded'
        /\ (last'.op = "fill" /\ unguarded)
             => ( /\ unguarded'
                  /\ last'.error = "none"
                  /\ \A i \in 1..Len(last'.arg) :
                       /\ last'.arg[i][1] \in DOMAIN attributes'
                       /\ attributes'[last'.arg[i][1]]
                            = Stored(type, last'.arg[i][1], last'.arg[i][2]) )
        /\ last'.op = "reguard" => ~unguarded'
      ]_vars

\* the insert of a force_create failed, and the fill() that followed stored
\* admin on a totally guarded type
C26_Witness ==
    /\ calls = 2
    /\ last.op = "fill"
    /\ last.error = "none"
    /\ unguarded
    /\ type.fillable = {}
    /\ type.guarded = {STAR}
    /\ ADMIN \in InputKeys(last.arg)
    /\ ADMIN \in DOMAIN attributes

\* C27: deleting an attribute of a persisted instance that has no other
\* change leaves the key in original and nothing dirty, and the save() that
\* follows issues no query: the removal is not written (the save then syncs
\* original, which forgets the key too).
C27_DeleteNotDirty ==
    [][ /\ ( /\ last'.op = "delattr"
             /\ last'.error = "none"
             /\ exists
             /\ last'.arg[1] \in DOMAIN original
             /\ DOMAIN GetDirty(Self) = {} )
           => ( /\ last'.arg[1] \notin DOMAIN attributes'
                /\ last'.arg[1] \in DOMAIN original'
                /\ original' = original
                /\ DOMAIN GetDirty(After) = {}
                /\ ~IsDirtyOf(After, <<last'.arg[1]>>) )
        /\ ( /\ last'.op = "save"
             /\ last.op = "delattr"
             /\ last.error = "none"
             /\ calls = 1
             /\ exists
             /\ last.arg[1] \in DOMAIN original )
           => ( /\ last'.queries = <<>>
                /\ last'.result = "True"
                /\ last'.error = "none"
                /\ last.arg[1] \notin DOMAIN attributes'
                /\ original' = attributes' )
      ]_vars

\* a row was loaded, its name deleted, and the save that followed issued
\* nothing
C27_Witness ==
    /\ calls = 2
    /\ exists
    /\ last.op = "save"
    /\ last.result = "True"
    /\ last.queries = <<>>
    /\ last.error = "none"
    /\ ~inserted
    /\ DOMAIN attributes = PersistKeys \ {NAME}
    /\ original = attributes

\* C28: a fill() that raises MassAssignmentError has changed nothing, for
\* every input and either order of its keys: no key is applied before the
\* error.
C28_RaisingFillChangesNothing ==
    [][ (last'.op = "fill" /\ last'.error = "MassAssignmentError")
        => ( /\ attributes' = attributes
             /\ original' = original
             /\ exists' = exists
             /\ unguarded' = unguarded )
      ]_vars

\* name was set to "1"; a fill of name = "2" and _token then raised, and name
\* is still "1"
C28_Witness ==
    /\ calls = 2
    /\ last.op = "fill"
    /\ last.error = "MassAssignmentError"
    /\ Len(last.arg) = 2
    /\ last.arg[1] = <<NAME, StrV(2)>>
    /\ last.arg[2][1] = PRIVATE
    /\ DOMAIN attributes = {NAME}
    /\ attributes[NAME] = StrV(1)

\* C29: on a persisted instance, increment and decrement change the column
\* in memory and sync it into original before the query is issued.  When the
\* query fails the error propagates with the column holding the new value,
\* equal in attributes and original and so not dirty; the save() that follows
\* does not write the column.
C29_NoRollback ==
    [][ /\ ( /\ last'.op \in {"increment", "decrement"}
             /\ last'.error = "StorageError"
             /\ exists )
           => LET column == last'.arg[1]
                  delta == IF last'.op = "increment" THEN last'.arg[2] ELSE 0 - last'.arg[2]
              IN  /\ Len(last'.queries) = 1
                  /\ ~last'.queries[1].ok
                  /\ attributes'[column] = IntV(attributes[column][2] + delta)
                  /\ original'[column] = attributes'[column]
                  /\ column \notin DOMAIN GetDirty(After)
                  /\ exists'
        /\ ( /\ last'.op = "save"
             /\ last.op \in {"increment", "decrement"}
             /\ last.error = "StorageError"
             /\ exists )
           => /\ \A i \in 1..Len(last'.queries) :
                    last.arg[1] \notin DOMAIN last'.queries[i].cols
              /\ attributes'[last.arg[1]] = attributes[last.arg[1]]
      ]_vars

\* votes was 0 in the row; an increment by 2 failed in storage, and votes is 2
\* in attributes and in original
C29_Witness ==
    /\ calls = 1
    /\ exists
    /\ last.op = "increment"
    /\ last.arg = <<VOTES, 2>>
    /\ last.error = "StorageError"
    /\ attributes[VOTES] = IntV(2)
    /\ original[VOTES] = IntV(2)

\* C30: the update of a save() is keyed on the primary-key value of the last
\* successful sync.  Every update targets the key held by original; a save
\* that succeeds makes original the attributes, so that after the key went
\* from a to b the next update targets b; a save that fails, and an
\* assignment, leave original alone, so that the save after a failed update
\* issues the same predicate again.
C30_KeyOfLastSync ==
    [][ /\ (last'.op = "save" /\ exists /\ ID \in DOMAIN original)
             => \A i \in 1..Len(last'.queries) :
                   /\ last'.queries[i].op = "update"
                   /\ last'.queries[i].where = <<ID, original[ID]>>
        /\ (last'.op = "save" /\ last'.error = "none")
             => (original' = attributes' /\ attributes' = attributes)
        /\ (last'.op = "save" /\ last'.error # "none")
             => (original' = original /\ attributes' = attributes)
        /\ last'.op = "set" => original' = original
        /\ (last'.op = "save" /\ last.op = "save" /\ last.error = "StorageError" /\ exists)
             => ( /\ Len(last'.queries) = 1
                  /\ last'.queries[1].where = last.queries[1].where
                  /\ last'.queries[1].cols = last.queries[1].cols )
      ]_vars

\* the row was loaded with id 1; id was set to 2 and saved, name was set and
\* saved: the second update is keyed on id = 2 and writes name alone
C30_Witness ==
    /\ calls = 4
    /\ last.op = "save"
    /\ last.error = "none"
    /\ Len(last.queries) = 1
    /\ last.queries[1].where = <<ID, IntV(2)>>
    /\ DOMAIN last.queries[1].cols = {NAME}
    /\ original[ID] = IntV(2)

====
